---- MODULE Spec2Model ----
(***************************************************************************)
(* Appender: a container format that appends named resources to the tail   *)
(* of a host file (src/src/core.rs, src/src/util.rs).                      *)
(*                                                                         *)
(* Representation.  A string is the sequence of its Unicode code points.   *)
(* A file's content is a sequence of items.  An item is either a run of    *)
(* literal bytes [k |-> "B", bytes |-> <<..>>] or a fragment of an opaque  *)
(* bulk blob: [k |-> "D", ...] (plain data) or [k |-> "Z", ...] (a gzip    *)
(* stream).  Bulk bytes are never equal to a literal byte, so a sentinel   *)
(* or a header is only ever found in literal bytes; sizes and offsets are  *)
(* the real ones.  Contents are kept in normal form (Norm), so equality of *)
(* contents is equality of the byte strings they stand for.                *)
(***************************************************************************)
EXTENDS Integers, Sequences, FiniteSets, TLC

VARIABLES
    fs,        \* the files of the directory: path -> [ex, data]
    last,      \* the last operation, its arguments and its result
    pre,       \* the file system and the intact entries before the last operation
    written,   \* the entries add_resource appended to the container, still intact
    lastadd,   \* the container before and after the latest add_resource
    cut,       \* the truncation of the container, once it has happened
    codec,     \* a header on its way through to_bytes and ResourceHead::from
    nops,      \* changes of the container so far
    scan,      \* a scan of the container in progress, window by window
    overflow_checks  \* the build: TRUE where integer overflow panics (the dev
               \* profile), FALSE where it wraps (the release profile)

vars == <<fs, last, pre, written, lastadd, cut, codec, nops, scan, overflow_checks>>

----------------------------------------------------------------------------
(* Program constants *)

BUFFER_SIZE == 1024 * 512

MAX_ID_LENGTH == 64

MAX_NAME_LENGTH == 255

\* MAX_LENGTH_SIZE.to_string().len(): the digits of 1024^4 = 1099511627776
LENGTH_WIDTH == 13

RESOURCE_MAGIC ==
    <<137, 79, 118, 101, 114, 108, 97, 121, 68, 97, 116, 97, 13, 10, 26, 10>>

END_IDENTIFIER == <<79, 68, 69, 78, 68>>

SEARCH_BUFFER_SIZE == 1024 * 512

MAX_HEADER_SIZE == 4096

SUPPORTED_VERSION == <<49, 46, 48, 46, 48>>

----------------------------------------------------------------------------
(* Strings *)

Min(a, b) == IF a <= b THEN a ELSE b

Max(a, b) == IF a >= b THEN a ELSE b

\* char::is_whitespace on the code points the model uses
IsWhitespace(c) == c \in {9, 10, 11, 12, 13, 32, 133, 160}

\* str::trim: leading and trailing whitespace removed
Trim(s) ==
    LET keep == {i \in 1..Len(s) : ~IsWhitespace(s[i])}
    IN IF keep = {} THEN <<>>
       ELSE LET lo == CHOOSE i \in keep : \A j \in keep : i <= j
                hi == CHOOSE i \in keep : \A j \in keep : j <= i
            IN SubSeq(s, lo, hi)

\* UTF-8 encoding of one code point
Utf8Char(c) ==
    IF c < 128 THEN <<c>>
    ELSE IF c < 2048 THEN <<192 + (c \div 64), 128 + (c % 64)>>
    ELSE IF c < 65536
      THEN <<224 + (c \div 4096), 128 + ((c \div 64) % 64), 128 + (c % 64)>>
    ELSE <<240 + (c \div 262144), 128 + ((c \div 4096) % 64), 128 + ((c \div 64) % 64),
           128 + (c % 64)>>

\* String::as_bytes: the UTF-8 bytes of a string (the halves are encoded apart)
RECURSIVE Utf8(_)
Utf8(s) ==
    IF Len(s) = 0 THEN <<>>
    ELSE IF Len(s) = 1 THEN Utf8Char(s[1])
    ELSE Utf8(SubSeq(s, 1, Len(s) \div 2)) \o Utf8(SubSeq(s, Len(s) \div 2 + 1, Len(s)))

IsCont(b) == b >= 128 /\ b < 192

\* the number of bytes of the character a lead byte starts; 0: not a lead byte
CharLen(b) ==
    IF b < 128 THEN 1
    ELSE IF b >= 194 /\ b < 224 THEN 2
    ELSE IF b >= 224 /\ b < 240 THEN 3
    ELSE IF b >= 240 /\ b < 245 THEN 4
    ELSE 0

\* the code point encoded at bs[i..hi], or -1: wrong lead byte, missing
\* continuation bytes, overlong form, surrogate, or beyond U+10FFFF
CharAt(bs, i, hi) ==
    LET n == CharLen(bs[i])
        Value(c, least) == IF c < least \/ c \in 55296..57343 \/ c > 1114111 THEN -1 ELSE c
    IN IF n = 0 \/ i + n - 1 > hi \/ \E j \in 1..(n - 1) : ~IsCont(bs[i + j]) THEN -1
       ELSE IF n = 1 THEN bs[i]
       ELSE IF n = 2 THEN (bs[i] - 192) * 64 + (bs[i + 1] - 128)
       ELSE IF n = 3
         THEN Value((bs[i] - 224) * 4096 + (bs[i + 1] - 128) * 64 + (bs[i + 2] - 128), 2048)
       ELSE Value((bs[i] - 240) * 262144 + (bs[i + 1] - 128) * 4096
                  + (bs[i + 2] - 128) * 64 + (bs[i + 3] - 128), 65536)

\* the characters of bs[i..hi], one after the other
RECURSIVE FromUtf8Seq(_, _, _, _)
FromUtf8Seq(bs, i, hi, acc) ==
    IF i > hi THEN [ok |-> TRUE, s |-> acc]
    ELSE LET Body(c) == IF c = -1 THEN [ok |-> FALSE, s |-> <<>>]
                        ELSE FromUtf8Seq(bs, i + CharLen(bs[i]), hi, Append(acc, c))
         IN Body(CharAt(bs, i, hi))

\* the characters of bs[lo..hi]: a long range is cut at a byte that is not a
\* continuation byte, and the two parts are decoded apart
RECURSIVE FromUtf8Range(_, _, _)
FromUtf8Range(bs, lo, hi) ==
    LET mid == (lo + hi) \div 2
        cuts == {m \in (mid + 1)..Min(mid + 4, hi) : ~IsCont(bs[m])}
        Both(l, r) == IF l.ok /\ r.ok THEN [ok |-> TRUE, s |-> l.s \o r.s]
                      ELSE [ok |-> FALSE, s |-> <<>>]
        At(m) == Both(FromUtf8Range(bs, lo, m - 1), FromUtf8Range(bs, m, hi))
    IN IF hi - lo < 8 \/ cuts = {} THEN FromUtf8Seq(bs, lo, hi, <<>>)
       ELSE At(CHOOSE m \in cuts : \A k \in cuts : m <= k)

\* str::from_utf8: the code points of a byte string, or failure
FromUtf8(bs) == FromUtf8Range(bs, 1, Len(bs))

IsDigit(c) == c >= 48 /\ c <= 57

RECURSIVE Digits(_)
Digits(n) == IF n < 10 THEN <<48 + n>> ELSE Append(Digits(n \div 10), 48 + (n % 10))

\* format!("{:0>width$}", n): decimal, left-padded with '0' to the width
PadZero(n, width) ==
    LET d == Digits(n)
    IN [i \in 1..Max(0, width - Len(d)) |-> 48] \o d

RECURSIVE DigitsValue(_)
DigitsValue(d) ==
    IF d = <<>> THEN 0 ELSE DigitsValue(SubSeq(d, 1, Len(d) - 1)) * 10 + (d[Len(d)] - 48)

StripZeros(d) ==
    LET nz == {i \in 1..Len(d) : d[i] # 48}
    IN IF nz = {} THEN <<>>
       ELSE SubSeq(d, CHOOSE i \in nz : \A j \in nz : i <= j, Len(d))

\* usize::MAX + 1 = 2^64 = 18446744073709551616 (a 64-bit target): the first
\* eleven digits, and the value of the last nine
U64Head == <<49, 56, 52, 52, 54, 55, 52, 52, 48, 55, 51>>

U64Tail == 709551616

\* a < b for two digit strings of one length
DigitsLess(a, b) ==
    \E i \in 1..Len(a) : a[i] < b[i] /\ \A j \in 1..(i - 1) : a[j] = b[j]

\* how far the number of the significant digits sig lies below 2^64: that
\* distance where it is at most U64Tail, 0 where it is more, -1 where the
\* number is 2^64 or more and so no usize or u64
BelowWrap(sig) ==
    IF Len(sig) < 20 THEN 0
    ELSE IF Len(sig) > 20 THEN -1
    ELSE IF DigitsLess(SubSeq(sig, 1, 11), U64Head) THEN 0
    ELSE IF SubSeq(sig, 1, 11) # U64Head THEN -1
    ELSE IF DigitsValue(SubSeq(sig, 12, 20)) >= U64Tail THEN -1
    ELSE U64Tail - DigitsValue(SubSeq(sig, 12, 20))

\* BelowWrap of a string parse::<usize> accepts
Below(s) == BelowWrap(StripZeros(IF s # <<>> /\ s[1] = 43 THEN Tail(s) ELSE s))

\* the digits of 2^64 - below, for 0 < below <= U64Tail
NearMax(below) == U64Head \o PadZero(U64Tail - below, 9)

\* str::parse::<usize> / parse::<u64>: an optional '+', then one or more
\* digits of a number below 2^64.  huge marks a value of more than nine
\* significant digits, which exceeds every file size of the model.
ParseUnsigned(s) ==
    LET d == IF s # <<>> /\ s[1] = 43 THEN Tail(s) ELSE s
        sig == StripZeros(d)
    IN IF d = <<>> \/ \E i \in 1..Len(d) : ~IsDigit(d[i])
       THEN [ok |-> FALSE, huge |-> FALSE, v |-> 0]
       ELSE IF Len(sig) > 9 THEN [ok |-> BelowWrap(sig) >= 0, huge |-> TRUE, v |-> 0]
       ELSE [ok |-> TRUE, huge |-> FALSE, v |-> DigitsValue(sig)]

----------------------------------------------------------------------------
(* Header codec: ResourceHead, bincode (fixed-width little-endian integers, *)
(* a string as its u64 byte length followed by its UTF-8 bytes, an enum as  *)
(* its u32 variant index; bytes after the value are ignored).               *)

CompressIndex(c) == IF c = "None" THEN 0 ELSE 1

U32LE(n) == <<n % 256, (n \div 256) % 256, (n \div 65536) % 256, (n \div 16777216) % 256>>

U64LE(n) == U32LE(n) \o <<0, 0, 0, 0>>

\* a faulty string encoding that stores the number of characters as the length
EncodeStringChars(s) == U64LE(Len(s)) \o Utf8(s)

EncodeString(s) == LET b == Utf8(s) IN U64LE(Len(b)) \o b

\* ResourceHead::new: the header add_resource builds; it panics (assert!) when
\* NewPanics holds
NewPanics(id, name) == Len(id) > MAX_ID_LENGTH \/ Len(name) > MAX_NAME_LENGTH

\* a faulty constructor that leaves the size field at zero
ResourceHead_unsized(id, length, size, name, compress) ==
    [version |-> SUPPORTED_VERSION, id |-> id, name |-> name,
     length |-> PadZero(length, LENGTH_WIDTH), size |-> PadZero(0, LENGTH_WIDTH),
     compress |-> compress]

ResourceHead_new(id, length, size, name, compress) ==
    [version |-> SUPPORTED_VERSION, id |-> id, name |-> name,
     length |-> PadZero(length, LENGTH_WIDTH), size |-> PadZero(size, LENGTH_WIDTH),
     compress |-> compress]

\* ResourceHead::to_bytes
to_bytes(h) ==
    EncodeString(h.version) \o EncodeString(h.id) \o EncodeString(h.name)
    \o EncodeString(h.length) \o EncodeString(h.size) \o U32LE(CompressIndex(h.compress))

\* ResourceHead::get_len
get_len(h) == Len(to_bytes(h))

NoHead ==
    [version |-> <<>>, id |-> <<>>, name |-> <<>>, length |-> <<>>, size |-> <<>>,
     compress |-> "None"]

\* a u64 read at 0-based offset pos; a value of 2^31 or more is reported as
\* huge: it exceeds the bytes that can follow
ReadU64(data, pos) ==
    IF pos + 8 > Len(data) THEN [ok |-> FALSE, v |-> 0]
    ELSE IF data[pos + 4] >= 128 \/ \E j \in 5..8 : data[pos + j] # 0
      THEN [ok |-> FALSE, v |-> 0]
    ELSE [ok |-> TRUE,
          v |-> data[pos + 1] + 256 * data[pos + 2] + 65536 * data[pos + 3]
                + 16777216 * data[pos + 4]]

\* one String field read at 0-based offset pos
DecodeString(data, pos) ==
    LET Body(n) ==
          IF ~n.ok \/ pos + 8 + n.v > Len(data) THEN [ok |-> FALSE, s |-> <<>>, next |-> pos]
          ELSE LET Field(u) == [ok |-> u.ok, s |-> u.s, next |-> pos + 8 + n.v]
               IN Field(FromUtf8(SubSeq(data, pos + 9, pos + 8 + n.v)))
    IN Body(ReadU64(data, pos))

\* the enum CompressMode read at 0-based offset p, after the five strings
DecodeCompress(data, p, fields) ==
    IF p + 4 > Len(data) THEN [ok |-> FALSE, h |-> NoHead]
    ELSE IF data[p + 2] # 0 \/ data[p + 3] # 0 \/ data[p + 4] # 0 \/ data[p + 1] > 1
      THEN [ok |-> FALSE, h |-> NoHead]
    ELSE [ok |-> TRUE,
          h |-> [version |-> fields[1], id |-> fields[2], name |-> fields[3],
                 length |-> fields[4], size |-> fields[5],
                 compress |-> IF data[p + 1] = 0 THEN "None" ELSE "Compress"]]

\* the fields of the struct in their order, from 0-based offset pos on
RECURSIVE DecodeFields(_, _, _)
DecodeFields(data, pos, fields) ==
    IF Len(fields) = 5 THEN DecodeCompress(data, pos, fields)
    ELSE LET Body(f) == IF ~f.ok THEN [ok |-> FALSE, h |-> NoHead]
                        ELSE DecodeFields(data, f.next, Append(fields, f.s))
         IN Body(DecodeString(data, pos))

\* ResourceHead::from: the header a byte string starts with, or failure
ResourceHead_from(data) == DecodeFields(data, 0, <<>>)

----------------------------------------------------------------------------
(* util.rs: compare_version *)

\* str::split('.')
RECURSIVE Split(_, _)
Split(s, sep) ==
    LET at == {i \in 1..Len(s) : s[i] = sep} IN
    IF at = {} THEN <<s>>
    ELSE LET i == CHOOSE k \in at : \A j \in at : k <= j
         IN <<SubSeq(s, 1, i - 1)>> \o Split(SubSeq(s, i + 1, Len(s)), sep)

\* str::parse::<i32>: an optional sign, then one or more digits, within i32
ParseI32(s) ==
    LET signed == s # <<>> /\ s[1] \in {43, 45}
        neg == s # <<>> /\ s[1] = 45
        d == IF signed THEN Tail(s) ELSE s
        sig == StripZeros(d)
    IN IF d = <<>> \/ \E i \in 1..Len(d) : ~IsDigit(d[i]) THEN [ok |-> FALSE, v |-> 0]
       ELSE IF Len(sig) > 10 THEN [ok |-> FALSE, v |-> 0]
       ELSE IF Len(sig) = 10
         THEN LET hi == DigitsValue(SubSeq(sig, 1, 9))
                  lo == sig[10] - 48
              IN IF hi < 214748364 \/ (hi = 214748364 /\ lo <= 7)
                 THEN [ok |-> TRUE, v |-> IF neg THEN -(hi * 10 + lo) ELSE hi * 10 + lo]
                 ELSE IF neg /\ hi = 214748364 /\ lo = 8
                   THEN [ok |-> TRUE, v |-> -2147483647 - 1]
                 ELSE [ok |-> FALSE, v |-> 0]
       ELSE [ok |-> TRUE, v |-> IF neg THEN -DigitsValue(sig) ELSE DigitsValue(sig)]

\* a faulty loop that compares only the components both versions have
RECURSIVE CompareCommon(_, _, _)
CompareCommon(nums1, nums2, i) ==
    IF i > Min(Len(nums1), Len(nums2)) THEN "Equal"
    ELSE LET p1 == ParseI32(nums1[i])
             p2 == ParseI32(nums2[i])
         IN IF ~p1.ok THEN "Err"
            ELSE IF ~p2.ok THEN "Err"
            ELSE IF p1.v # p2.v THEN (IF p1.v > p2.v THEN "Greater" ELSE "Less")
            ELSE CompareCommon(nums1, nums2, i + 1)

\* the loop of compare_version from component i (1-based) on
RECURSIVE CompareFrom(_, _, _)
CompareFrom(nums1, nums2, i) ==
    IF i > Max(Len(nums1), Len(nums2)) THEN "Equal"
    ELSE LET p1 == IF i <= Len(nums1) THEN ParseI32(nums1[i]) ELSE [ok |-> TRUE, v |-> 0]
             p2 == IF i <= Len(nums2) THEN ParseI32(nums2[i]) ELSE [ok |-> TRUE, v |-> 0]
         IN IF ~p1.ok THEN "Err"
            ELSE IF ~p2.ok THEN "Err"
            ELSE IF p1.v # p2.v THEN (IF p1.v > p2.v THEN "Greater" ELSE "Less")
            ELSE CompareFrom(nums1, nums2, i + 1)

\* a faulty comparison that takes two versions as equal only when the strings are
compare_exact(version1, version2) == IF version1 = version2 THEN "Equal" ELSE "Less"

compare_version(version1, version2) ==
    CompareFrom(Split(version1, 46), Split(version2, 46), 1)

----------------------------------------------------------------------------
(* File contents *)

Lit(bytes) == [k |-> "B", bytes |-> bytes]

\* an opaque blob of n bytes, identified by its tag
Blob(tag, n) == [k |-> "D", tag |-> tag, off |-> 0, len |-> n]

ItemLen(it) == IF it.k = "B" THEN Len(it.bytes) ELSE it.len

RECURSIVE Size(_)
Size(c) == IF c = <<>> THEN 0 ELSE ItemLen(Head(c)) + Size(Tail(c))

\* two adjacent items that are one run of literal bytes, or two consecutive
\* fragments of the same blob
Joins(a, b) ==
    IF a.k = "B" \/ b.k = "B" THEN a.k = b.k
    ELSE a.off + a.len = b.off /\ [a EXCEPT !.off = 0, !.len = 0] = [b EXCEPT !.off = 0, !.len = 0]

Join(a, b) ==
    IF a.k = "B" THEN Lit(a.bytes \o b.bytes) ELSE [a EXCEPT !.len = a.len + b.len]

RECURSIVE Norm(_)
Norm(c) ==
    IF c = <<>> THEN <<>>
    ELSE IF ItemLen(Head(c)) = 0 THEN Norm(Tail(c))
    ELSE LET r == Norm(Tail(c)) IN
         IF r # <<>> /\ Joins(Head(c), Head(r)) THEN <<Join(Head(c), Head(r))>> \o Tail(r)
         ELSE <<Head(c)>> \o r

Cat(a, b) == Norm(a \o b)

\* the 0-based offset at which item i of c starts
RECURSIVE StartOf(_, _)
StartOf(c, i) == IF i = 1 THEN 0 ELSE StartOf(c, i - 1) + ItemLen(c[i - 1])

\* the part of an item that lies in the bytes [lo, hi) of the item
Cut(it, lo, hi) ==
    IF it.k = "B" THEN Lit(SubSeq(it.bytes, lo + 1, hi))
    ELSE [it EXCEPT !.off = it.off + lo, !.len = hi - lo]

\* the parts of the items i.. of c that lie in the bytes [from, to) of c
RECURSIVE SliceItems(_, _, _, _, _)
SliceItems(c, i, s, from, to) ==
    IF i > Len(c) \/ s >= to THEN <<>>
    ELSE LET lo == Max(from, s) - s
             hi == Min(to, s + ItemLen(c[i])) - s
         IN (IF lo < hi THEN <<Cut(c[i], lo, hi)>> ELSE <<>>)
            \o SliceItems(c, i + 1, s + ItemLen(c[i]), from, to)

\* the bytes [from, to) of a content (0-based, clipped to the content)
Slice(c, from, to) == Norm(SliceItems(c, 1, 0, from, to))

\* every offset at which the bytes of pat occur in c
Occurrences(c, pat) ==
    UNION { LET s == StartOf(c, i)
                b == c[i].bytes
            IN { s + j - 1 : j \in { j \in 1..(Len(b) - Len(pat) + 1) :
                     b[j] = pat[1] /\ SubSeq(b, j, j + Len(pat) - 1) = pat } }
            : i \in { i \in 1..Len(c) : c[i].k = "B" } }

\* a faulty search that returns the last occurrence at or after from
FindLast(c, pat, from) ==
    LET hits == { p \in Occurrences(c, pat) : p >= from }
    IN IF hits = {} THEN -1 ELSE CHOOSE p \in hits : \A q \in hits : q <= p

\* memmem::Finder::find(&c[from..]): the first occurrence at or after from,
\* as an offset into c; -1 for None
Find(c, pat, from) ==
    LET hits == { p \in Occurrences(c, pat) : p >= from }
    IN IF hits = {} THEN -1 ELSE CHOOSE p \in hits : \A q \in hits : p <= q

\* the literal bytes of c from offset pos up to the first bulk byte or the end:
\* what a decoder can read of &c[pos..]
LiteralFrom(c, pos) ==
    LET at == { i \in 1..Len(c) : StartOf(c, i) <= pos /\ pos < StartOf(c, i) + ItemLen(c[i]) }
    IN IF at = {} THEN <<>>
       ELSE LET i == CHOOSE i \in at : TRUE
            IN IF c[i].k = "B" THEN SubSeq(c[i].bytes, pos - StartOf(c, i) + 1, Len(c[i].bytes))
               ELSE <<>>

----------------------------------------------------------------------------
(* util.rs: compression_file, decompress_file (flate2 gzip).  The stream is *)
(* opaque; its size is 20 bytes of framing plus a body that shrinks with     *)
(* the level.                                                               *)

compression_file(c, grade) ==
    <<[k |-> "Z", lvl |-> grade, body |-> c, off |-> 0,
       len |-> 20 + (Size(c) \div (1 + grade))]>>

\* the original bytes of a complete gzip stream, or failure
decompress_file(c) ==
    IF Len(c) = 1 /\ c[1].k = "Z" /\ c[1].off = 0
       /\ <<c[1]>> = compression_file(c[1].body, c[1].lvl)
    THEN [ok |-> TRUE, data |-> c[1].body]
    ELSE [ok |-> FALSE, data |-> <<>>]

----------------------------------------------------------------------------
(* The file system: every path of the one directory the program works in *)

Paths ==
    {"target.bin", "res.bin", "big.bin", "temp", "out.bin", "actualFile", "new.bin",
     "none.bin"}

Absent == [ex |-> FALSE, data |-> <<>>]

File(c) == [ex |-> TRUE, data |-> c]

\* Path::file_name, as code points
FileName(p) ==
    CASE p = "res.bin" -> <<114, 101, 115, 46, 98, 105, 110>>
      [] p = "big.bin" -> <<98, 105, 103, 46, 98, 105, 110>>
      [] p = "temp" -> <<116, 101, 109, 112>>
      [] OTHER -> <<120>>

MAGIC_LEN == Len(RESOURCE_MAGIC)

END_LEN == Len(END_IDENTIFIER)

\* a faulty scan whose windows do not overlap
no_overlap == MAGIC_LEN - MAGIC_LEN

\* overlap_size of export_resource and find_resources_config
overlap_size == MAX_HEADER_SIZE + MAGIC_LEN

----------------------------------------------------------------------------
(* core.rs: the searches *)

\* a faulty header read that decodes at the sentinel and not after it
ReadConfigAtHit(file, file_offset, buffer, absolute_pos) ==
    [skip |-> FALSE, config |-> ResourceHead_from(LiteralFrom(buffer, absolute_pos))]

\* export_resource / find_resources_config: the header after the sentinel at
\* absolute_pos of the buffer read at file_offset (lines 300-317, 487-504).
\* skip: nothing could be read.
ReadConfig(file, file_offset, buffer, absolute_pos) ==
    LET resource_start == file_offset + absolute_pos
        Read(header_buffer) ==
          IF Size(header_buffer) = 0 THEN [skip |-> TRUE, config |-> [ok |-> FALSE, h |-> NoHead]]
          ELSE [skip |-> FALSE, config |-> ResourceHead_from(LiteralFrom(header_buffer, 0))]
    IN IF absolute_pos + MAGIC_LEN + MAX_HEADER_SIZE <= Size(buffer)
       THEN Read(Slice(buffer, absolute_pos + MAGIC_LEN, Size(buffer)))
       ELSE Read(Slice(file, resource_start + MAGIC_LEN,
                       resource_start + MAGIC_LEN + MAX_HEADER_SIZE))

NoMatch == [res |-> "Continue", start |-> 0, stop |-> 0, h |-> NoHead]

Failure(res) == [res |-> res, start |-> 0, stop |-> 0, h |-> NoHead]

\* a faulty validation that takes the extent from the header unchecked
CheckExtentUnchecked(file, resource_start, config) ==
    [res |-> "Found", start |-> resource_start,
     stop |-> Min(Size(file), resource_start + MAGIC_LEN + get_len(config)
                              + ParseUnsigned(Trim(config.length)).v + END_LEN),
     h |-> config]

\* the extent and end-sentinel checks of export_resource (lines 344-365) and
\* of remove_resource (lines 604-628) on the entry at resource_start
CheckExtent(file, resource_start, config) ==
    LET Body(header_len, resource_length, below) ==
          LET base == resource_start + MAGIC_LEN + header_len
              \* a usize sum that passes 2^64 - 1 has wrapped around, where the
              \* build lets it
              end_pos == IF resource_length.huge THEN base - below
                         ELSE base + resource_length.v
              Checked ==
                IF end_pos + END_LEN > Size(file) THEN Failure("BeyondFile")
                ELSE IF Slice(file, end_pos, end_pos + END_LEN) # <<Lit(END_IDENTIFIER)>>
                  THEN Failure("NoEndMarker")
                ELSE [res |-> "Found", start |-> resource_start,
                      stop |-> end_pos + END_LEN, h |-> config]
          IN IF ~resource_length.ok THEN Failure("ParseLength")
             ELSE IF ~resource_length.huge THEN Checked
             \* neither end_pos nor end_pos + 5 passes 2^64 - 1
             ELSE IF below = 0 \/ below > base + END_LEN THEN Failure("BeyondFile")
             ELSE IF overflow_checks THEN Failure("Panic")
             \* end_pos + 5 has wrapped to less than 5, end_pos has not
             ELSE IF below > base THEN Failure("EndOutOfRange")
             ELSE Checked
    IN Body(get_len(config), ParseUnsigned(Trim(config.length)), Below(Trim(config.length)))

\* export_resource, the checks on a header whose id matches (lines 332-365)
ExportValidate(file, resource_start, config) ==
    LET Body(version_ordering) ==
          IF version_ordering = "Err" THEN Failure("InvalidVersion")
          ELSE IF version_ordering # "Equal" THEN Failure("VersionMismatch")
          ELSE LET Read(r) ==
                     \* read_exact at a position past the end of the file
                     IF r.res = "EndOutOfRange" THEN Failure("IoError") ELSE r
               IN Read(CheckExtent(file, resource_start, config))
    IN Body(compare_version(config.version, SUPPORTED_VERSION))

\* export_resource, the while-let loop over one buffer (lines 295-427)
RECURSIVE ExportScanBuffer(_, _, _, _, _)
ExportScanBuffer(file, id, file_offset, buffer, search_start) ==
    LET Hit(absolute_pos) ==
          LET Body(r) ==
                IF r.skip \/ ~r.config.ok \/ Trim(r.config.h.id) # Trim(id)
                THEN ExportScanBuffer(file, id, file_offset, buffer, absolute_pos + 1)
                ELSE ExportValidate(file, file_offset + absolute_pos, r.config.h)
          IN IF absolute_pos = -1 THEN NoMatch
             ELSE Body(ReadConfig(file, file_offset, buffer, absolute_pos))
    IN Hit(Find(buffer, RESOURCE_MAGIC, search_start))

\* export_resource, the loop over the scan windows (lines 281-436)
RECURSIVE ExportScan(_, _, _)
ExportScan(file, id, file_offset) ==
    LET Window(buffer) ==
          LET Body(r) ==
                IF r.res # "Continue" THEN r
                ELSE IF file_offset + SEARCH_BUFFER_SIZE >= Size(file) THEN Failure("NotFound")
                ELSE ExportScan(file, id, file_offset + SEARCH_BUFFER_SIZE - overlap_size)
          IN IF Size(buffer) = 0 THEN Failure("NotFound")
             ELSE Body(ExportScanBuffer(file, id, file_offset, buffer, 0))
    IN Window(Slice(file, file_offset, file_offset + SEARCH_BUFFER_SIZE))

\* a faulty listing that keeps only the headers whose extent and end sentinel
\* check out
RECURSIVE FindScanBufferChecked(_, _, _, _, _)
FindScanBufferChecked(file, file_offset, buffer, search_start, configs) ==
    LET Hit(absolute_pos) ==
          LET Body(r) ==
                FindScanBufferChecked(file, file_offset, buffer, absolute_pos + 1,
                    IF r.skip \/ ~r.config.ok THEN configs
                    ELSE IF CheckExtent(file, file_offset + absolute_pos, r.config.h).res
                              # "Found"
                      THEN configs
                    ELSE Append(configs, [pos |-> file_offset + absolute_pos,
                                          h |-> r.config.h]))
          IN IF absolute_pos = -1 THEN configs
             ELSE Body(ReadConfig(file, file_offset, buffer, absolute_pos))
    IN Hit(Find(buffer, RESOURCE_MAGIC, search_start))

\* find_resources_config, the while-let loop over one buffer (lines 482-520)
RECURSIVE FindScanBuffer(_, _, _, _, _)
FindScanBuffer(file, file_offset, buffer, search_start, configs) ==
    LET Hit(absolute_pos) ==
          LET Body(r) ==
                FindScanBuffer(file, file_offset, buffer, absolute_pos + 1,
                    IF r.skip \/ ~r.config.ok THEN configs
                    ELSE Append(configs, [pos |-> file_offset + absolute_pos,
                                          h |-> r.config.h]))
          IN IF absolute_pos = -1 THEN configs
             ELSE Body(ReadConfig(file, file_offset, buffer, absolute_pos))
    IN Hit(Find(buffer, RESOURCE_MAGIC, search_start))

\* find_resources_config, the loop over the scan windows (lines 468-528)
RECURSIVE FindScan(_, _, _)
FindScan(file, file_offset, configs) ==
    LET Window(buffer) ==
          LET Body(found) ==
                IF file_offset + SEARCH_BUFFER_SIZE >= Size(file) THEN found
                ELSE FindScan(file, file_offset + SEARCH_BUFFER_SIZE - overlap_size, found)
          IN IF Size(buffer) = 0 THEN configs
             ELSE Body(FindScanBuffer(file, file_offset, buffer, 0, configs))
    IN Window(Slice(file, file_offset, file_offset + SEARCH_BUFFER_SIZE))

\* a faulty extent for remove_resource that leaves the end sentinel behind
RemoveValidateKeepEnd(file_data, absolute_pos, config) ==
    LET Body(r) == IF r.res = "Found" THEN [r EXCEPT !.stop = @ - END_LEN] ELSE r
    IN Body(CheckExtent(file_data, absolute_pos, config))

\* remove_resource, the checks on a header whose id matches (lines 603-628)
RemoveValidate(file_data, absolute_pos, config) ==
    LET Sliced(r) ==
          \* file_data[end_pos..end_pos + 5] with the end before the start
          IF r.res = "EndOutOfRange" THEN Failure("Panic") ELSE r
    IN Sliced(CheckExtent(file_data, absolute_pos, config))

\* remove_resource, the search of the whole file (lines 577-637)
RECURSIVE RemoveScan(_, _, _)
RemoveScan(file_data, id, search_pos) ==
    LET Hit(absolute_pos) ==
          LET available == Size(file_data) - absolute_pos - MAGIC_LEN
              Body(config) ==
                IF ~config.ok \/ Trim(config.h.id) # Trim(id)
                THEN RemoveScan(file_data, id, absolute_pos + 1)
                ELSE RemoveValidate(file_data, absolute_pos, config.h)
          IN IF absolute_pos = -1 THEN Failure("NotFound")
             ELSE IF absolute_pos + MAGIC_LEN + MAX_HEADER_SIZE > Size(file_data)
                     /\ available = 0
               THEN RemoveScan(file_data, id, absolute_pos + 1)
             ELSE Body(ResourceHead_from(LiteralFrom(file_data, absolute_pos + MAGIC_LEN)))
    IN Hit(Find(file_data, RESOURCE_MAGIC, search_pos))

----------------------------------------------------------------------------
(* core.rs: the four operations, as functions of the file system f.  An     *)
(* Option is a sequence of length 0 (None) or 1 (Some).  Each returns the   *)
(* result and the file system it leaves.                                    *)

\* a faulty copy loop that stops after the first buffer
AddCopyOnce(source_file, pos) == Slice(source_file, pos, pos + BUFFER_SIZE)

\* add_resource, the copy loop (lines 236-242): buffers are read from pos on
\* and written until a read returns less than a full buffer
RECURSIVE AddCopy(_, _)
AddCopy(source_file, pos) ==
    LET Body(chunk) ==
          IF Size(chunk) < BUFFER_SIZE THEN chunk
          ELSE Cat(chunk, AddCopy(source_file, pos + Size(chunk)))
    IN Body(Slice(source_file, pos, pos + BUFFER_SIZE))

\* a faulty writer that leaves out the end sentinel
EntryBytesOpen(head, source_file) ==
    Norm(<<Lit(RESOURCE_MAGIC), Lit(to_bytes(head))>> \o AddCopy(source_file, 0))

\* the bytes add_resource appends: sentinel, header, payload, end sentinel
EntryBytes(head, source_file) ==
    Norm(<<Lit(RESOURCE_MAGIC), Lit(to_bytes(head))>> \o AddCopy(source_file, 0)
         \o <<Lit(END_IDENTIFIER)>>)

add_resource(f, target_file_path, source_file_path, id, compression_grade, output_path) ==
    LET temp_file_path == "temp"
        source_name == FileName(source_file_path)
        target_file_path_buf == IF output_path = <<>> THEN target_file_path ELSE output_path[1]
        compress_mode == IF compression_grade = <<>> THEN "None" ELSE "Compress"
        \* source_file: the file the payload is read from (the source, or temp)
        Body(source_file) ==
          LET \* compression_file has created temp
              f1 == IF compression_grade = <<>> THEN f
                    ELSE [f EXCEPT ![temp_file_path] = File(source_file)]
              \* fs::copy creates or truncates the destination, then copies
              f2 == IF output_path = <<>> THEN f1
                    ELSE [f1 EXCEPT ![output_path[1]] =
                            File(IF output_path[1] = target_file_path THEN <<>>
                                 ELSE f1[target_file_path].data)]
              head == ResourceHead_new(id, Size(source_file), Size(source_file),
                                       source_name, compress_mode)
              \* the content of the file that is opened for append
              opened == f2[target_file_path_buf].data
          IN IF output_path # <<>> /\ ~f1[target_file_path].ex
             THEN [res |-> "IoError", fs |-> f1, opened |-> <<>>]
             ELSE IF ~f2[target_file_path_buf].ex
               THEN [res |-> "IoError", fs |-> f2, opened |-> <<>>]
             ELSE IF NewPanics(id, source_name)
               THEN [res |-> "Panic",
                     fs |-> [f2 EXCEPT ![target_file_path_buf] =
                               File(Cat(opened, <<Lit(RESOURCE_MAGIC)>>))],
                     opened |-> opened]
             ELSE [res |-> "Ok",
                   fs |-> [f2 EXCEPT ![target_file_path_buf] =
                                       File(Cat(opened, EntryBytes(head, source_file))),
                                     ![temp_file_path] = Absent],
                   opened |-> opened]
    IN IF ~f[source_file_path].ex THEN [res |-> "IoError", fs |-> f, opened |-> <<>>]
       ELSE IF compression_grade = <<>> THEN Body(f[source_file_path].data)
       \* compression_file creates temp before it reads the source
       ELSE Body(compression_file(IF source_file_path = temp_file_path THEN <<>>
                                  ELSE f[source_file_path].data, compression_grade[1]))

\* export_resource, the copy loop (lines 389-398): remaining bytes are read
\* from pos on with read_exact, a buffer at a time; ok is FALSE when the file
\* ends first
RECURSIVE ExportCopy(_, _, _, _)
ExportCopy(source_file, pos, buffer_len, remaining) ==
    LET to_read == Min(buffer_len, remaining)
        Body(chunk) ==
          IF Size(chunk) < to_read THEN [ok |-> FALSE, data |-> <<>>]
          ELSE LET Rest(rest) == [ok |-> rest.ok, data |-> Cat(chunk, rest.data)]
               IN Rest(ExportCopy(source_file, pos + to_read, to_read, remaining - to_read))
    IN IF remaining = 0 THEN [ok |-> TRUE, data |-> <<>>]
       ELSE Body(Slice(source_file, pos, pos + to_read))

\* export_resource from the creation of the output file on (lines 367-422),
\* for the entry the search r found
ExportWrite(f, target_file_path, output_path, r) ==
    LET config == r.h
        \* File::create(&output_path_buf)
        f1 == [f EXCEPT ![output_path] = File(<<>>)]
        Copied(resource_length, copy) ==
          LET f2 == [f1 EXCEPT ![output_path] = File(copy.data)]
              \* decompress_file creates actualFile, then decodes into it
              Written(actual, expected_size) ==
                LET f3 == IF config.compress # "Compress" THEN f2
                          ELSE IF ~actual.ok THEN [f2 EXCEPT !["actualFile"] = File(<<>>)]
                          ELSE [f2 EXCEPT ![output_path] = File(actual.data),
                                          !["actualFile"] = Absent]
                    \* output_file is the handle File::create returned: the file the
                    \* payload was written to, also after the path has been replaced
                    output_file_len == Size(copy.data)
                IN IF config.compress = "Compress" /\ ~actual.ok
                   THEN [res |-> "DecompressError", fs |-> f3, start |-> r.start, h |-> config]
                   ELSE IF ~expected_size.ok
                     THEN [res |-> "ParseSize", fs |-> f3, start |-> r.start, h |-> config]
                   ELSE IF expected_size.huge \/ output_file_len # expected_size.v
                     THEN [res |-> "SizeMismatch", fs |-> [f3 EXCEPT ![output_path] = Absent],
                           start |-> r.start, h |-> config]
                   ELSE [res |-> "Ok", fs |-> f3, start |-> r.start, h |-> config]
          IN IF ~copy.ok THEN [res |-> "IoError", fs |-> f2, start |-> r.start, h |-> config]
             ELSE Written(decompress_file(copy.data), ParseUnsigned(Trim(config.size)))
        Sized(header_len, resource_length) ==
          Copied(resource_length,
                 ExportCopy(f1[target_file_path].data, r.start + MAGIC_LEN + header_len,
                            Min(BUFFER_SIZE, resource_length), resource_length))
        \* a length of more than nine digits is more than the file holds: the
        \* loop reads whole buffers until read_exact meets the end of the file
        Length(resource_length) ==
          IF resource_length.huge THEN Size(f[target_file_path].data) + BUFFER_SIZE
          ELSE resource_length.v
    IN Sized(get_len(config), Length(ParseUnsigned(Trim(config.length))))

export_resource(f, target_file_path, id, output_path) ==
    LET Body(r) ==
          IF r.res # "Found" THEN [res |-> r.res, fs |-> f, start |-> 0, h |-> NoHead]
          ELSE ExportWrite(f, target_file_path, output_path, r)
    IN IF ~f[target_file_path].ex THEN [res |-> "IoError", fs |-> f, start |-> 0, h |-> NoHead]
       ELSE Body(ExportScan(f[target_file_path].data, id, 0))

find_resources_config(f, target_file_path) ==
    IF ~f[target_file_path].ex THEN [res |-> "IoError", configs |-> <<>>]
    ELSE [res |-> "Ok", configs |-> FindScan(f[target_file_path].data, 0, <<>>)]

remove_resource(f, target_file_path, id, output_path) ==
    LET file_data == f[target_file_path].data
        output_path_buf == IF output_path = <<>> THEN target_file_path ELSE output_path[1]
        Body(r) ==
          IF r.res # "Found" THEN [res |-> r.res, fs |-> f, start |-> 0, stop |-> 0]
          ELSE [res |-> "Ok",
                fs |-> [f EXCEPT ![output_path_buf] =
                          File(Cat(Slice(file_data, 0, r.start),
                                   Slice(file_data, r.stop, Size(file_data))))],
                start |-> r.start, stop |-> r.stop]
    IN IF ~f[target_file_path].ex THEN [res |-> "IoError", fs |-> f, start |-> 0, stop |-> 0]
       ELSE Body(RemoveScan(file_data, id, 0))

----------------------------------------------------------------------------
(* Bounds and inputs *)

\* changes of the container in one behaviour: calls of add_resource and of
\* remove_resource, and the truncation
MaxOps == 2

TARGET == "target.bin"

\* "a", "b " as stored; "a", " b" as looked up: ids are compared trimmed
AddIds == {<<97>>, <<98, 32>>}

LookupIds == {<<97>>, <<32, 98>>}

\* res.bin holds "This is the resource data!"; big.bin is larger than a
\* buffer, also when it is compressed
ResData ==
    <<Lit(<<84, 104, 105, 115, 32, 105, 115, 32, 116, 104, 101, 32, 114, 101, 115, 111,
            117, 114, 99, 101, 32, 100, 97, 116, 97, 33>>)>>

BigData == <<Blob(2, 6000000)>>

\* the source and the compression grade of an add_resource call
AddInputs ==
    { <<"res.bin", <<>>>>, <<"res.bin", <<1>>>>, <<"big.bin", <<9>>>> }

\* the output path of export_resource: a new file, or the container itself
OutPaths == {"out.bin", TARGET}

\* a header as a foreign writer could store it: any version string
Forged(version, id, n) ==
    [ResourceHead_new(id, n, n, FileName("res.bin"), "None") EXCEPT !.version = version]

HostData == <<Blob(1, 27)>>

Container(data, entries) == [data |-> data, written |-> entries]

\* a container that add_resource has written one entry to
WithEntry(host, id) ==
    LET head == ResourceHead_new(id, Size(ResData), Size(ResData), FileName("res.bin"), "None")
        data == Cat(host, EntryBytes(head, ResData))
    IN Container(data, <<[start |-> Size(host), stop |-> Size(data), id |-> id,
                          orig |-> ResData]>>)

\* a source file that is itself an entry of id "a": a file that add_resource
\* has appended res.bin to
NestData ==
    EntryBytes(ResourceHead_new(<<97>>, Size(ResData), Size(ResData), FileName("res.bin"),
                                "None"), ResData)

\* a container that add_resource has written that file to, under id "b "
WithNested(host) ==
    LET head == ResourceHead_new(<<98, 32>>, Size(NestData), Size(NestData),
                                 FileName("nest.bin"), "None")
        data == Cat(host, EntryBytes(head, NestData))
    IN Container(data, <<[start |-> Size(host), stop |-> Size(data), id |-> <<98, 32>>,
                          orig |-> NestData]>>)

\* the containers a behaviour starts from: the 27 bytes of the test; bytes
\* holding a start sentinel that no header follows; a host with an entry of
\* version 2.0.0, 0.9, 1.0 or 1.x from a foreign writer; a host that
\* add_resource has written an entry to; a host with an entry whose payload
\* is itself an entry
Containers ==
    { Container(HostData, <<>>),
      Container(<<Lit(<<72>> \o RESOURCE_MAGIC \o <<0, 1>>)>>, <<>>),
      Container(Cat(HostData, EntryBytes(Forged(<<50, 46, 48, 46, 48>>, <<97>>, 26), ResData)),
                <<>>),
      Container(Cat(HostData, EntryBytes(Forged(<<49, 46, 48>>, <<97>>, 26), ResData)), <<>>),
      Container(Cat(HostData, EntryBytes(Forged(<<49, 46, 120>>, <<97>>, 26), ResData)), <<>>),
      Container(Cat(HostData, EntryBytes(Forged(<<48, 46, 57>>, <<97>>, 26), ResData)), <<>>),
      WithEntry(HostData, <<97>>),
      WithNested(HostData) }

\* containers whose next entry starts near the end of the first scan window:
\* the sentinel straddles the end of the window, lies in the region the next
\* window reads again, or is followed by a header the window cuts
WindowContainers ==
    { Container(<<Blob(1, SEARCH_BUFFER_SIZE - 8)>>, <<>>),
      Container(<<Blob(1, SEARCH_BUFFER_SIZE - overlap_size + 100)>>, <<>>),
      Container(<<Blob(1, SEARCH_BUFFER_SIZE - 60)>>, <<>>),
      WithEntry(<<Blob(1, SEARCH_BUFFER_SIZE - overlap_size + 100)>>, <<98, 32>>) }

NoLast ==
    [op |-> "init", id |-> <<>>, target |-> "", src |-> "", grade |-> <<>>,
     output |-> <<>>, out |-> "", res |-> "", start |-> 0, stop |-> 0, h |-> NoHead,
     configs |-> <<>>, version1 |-> <<>>, version2 |-> <<>>]

NoAdd == [valid |-> FALSE, id |-> <<>>, grade |-> <<>>, base |-> <<>>, after |-> <<>>,
          orig |-> <<>>, start |-> 0, stop |-> 0]

NoCut == [done |-> FALSE, id |-> <<>>, start |-> 0, after |-> <<>>]

NoScan ==
    [pc |-> "idle", mode |-> "", id |-> <<>>, file_offset |-> 0, buffer |-> <<>>,
     search_start |-> 0, configs |-> <<>>, res |-> ""]

NoCodec == [stage |-> "none", h |-> NoHead, bytes |-> <<>>,
            back |-> [ok |-> FALSE, h |-> NoHead]]

Before == [fs |-> fs, written |-> written]

InitWith(containers) ==
    /\ \E c \in containers :
         /\ fs = [p \in Paths |->
                    CASE p = TARGET -> File(c.data)
                      [] p = "res.bin" -> File(ResData)
                      [] p = "big.bin" -> File(BigData)
                      [] OTHER -> Absent]
         /\ written = c.written
    /\ last = NoLast
    /\ pre = Before
    /\ lastadd = NoAdd
    /\ cut = NoCut
    /\ codec = NoCodec
    /\ nops = 0
    /\ scan = NoScan
    /\ overflow_checks = FALSE

Init == InitWith(Containers)

InitWindows == InitWith(WindowContainers)

----------------------------------------------------------------------------
(* The record of the entries add_resource wrote *)

RECURSIVE AfterRemove(_, _, _)
AfterRemove(ws, start, stop) ==
    IF ws = <<>> THEN <<>>
    ELSE LET w == Head(ws)
             rest == AfterRemove(Tail(ws), start, stop)
         IN IF w.stop <= start THEN <<w>> \o rest
            ELSE IF w.start >= stop
              THEN <<[w EXCEPT !.start = w.start - (stop - start),
                               !.stop = w.stop - (stop - start)]>> \o rest
            ELSE rest

RECURSIVE AfterTruncate(_, _)
AfterTruncate(ws, at) ==
    IF ws = <<>> THEN <<>>
    ELSE IF Head(ws).stop <= at THEN <<Head(ws)>> \o AfterTruncate(Tail(ws), at)
    ELSE AfterTruncate(Tail(ws), at)

----------------------------------------------------------------------------
(* Actions: one per operation.  A behaviour is a series of changes to the   *)
(* container followed by one lookup (export or list).                       *)

Observed == last.op \in {"export", "find"}

AddResource ==
    /\ ~Observed
    /\ nops < MaxOps
    /\ \E id \in AddIds, in \in AddInputs :
         LET src == in[1]
             start == Size(fs[TARGET].data)
             Apply(r, stop) ==
               /\ fs' = r.fs
               /\ last' = [NoLast EXCEPT !.op = "add", !.id = id, !.src = src,
                                         !.grade = in[2], !.res = r.res,
                                         !.start = start, !.stop = stop]
               /\ written' = IF r.res = "Ok"
                             THEN Append(written, [start |-> start, stop |-> stop, id |-> id,
                                                   orig |-> fs[src].data])
                             ELSE written
               /\ lastadd' = IF r.res = "Ok"
                             THEN [valid |-> TRUE, id |-> id, grade |-> in[2],
                                   base |-> fs[TARGET].data,
                                   after |-> r.fs[TARGET].data, orig |-> fs[src].data,
                                   start |-> start, stop |-> stop]
                             ELSE lastadd
             Sized(r) == Apply(r, Size(r.fs[TARGET].data))
         IN Sized(add_resource(fs, TARGET, src, id, in[2], <<>>))
    /\ pre' = Before
    /\ nops' = nops + 1
    /\ UNCHANGED <<overflow_checks, cut, codec, scan>>

ExportResource ==
    /\ ~Observed
    /\ \E id \in LookupIds, out \in OutPaths :
         LET Apply(r) ==
               /\ fs' = r.fs
               /\ last' = [NoLast EXCEPT !.op = "export", !.id = id, !.out = out,
                                         !.res = r.res, !.start = r.start, !.h = r.h]
         IN Apply(export_resource(fs, TARGET, id, out))
    /\ pre' = Before
    /\ UNCHANGED <<overflow_checks, written, lastadd, cut, codec, nops, scan>>

FindResourcesConfig ==
    /\ ~Observed
    /\ LET Apply(r) ==
             last' = [NoLast EXCEPT !.op = "find", !.res = r.res, !.configs = r.configs]
       IN Apply(find_resources_config(fs, TARGET))
    /\ pre' = Before
    /\ UNCHANGED <<overflow_checks, fs, written, lastadd, cut, codec, nops, scan>>

RemoveResource ==
    /\ ~Observed
    /\ nops < MaxOps
    /\ \E id \in LookupIds :
         LET Apply(r) ==
               /\ fs' = r.fs
               /\ last' = [NoLast EXCEPT !.op = "remove", !.id = id, !.res = r.res,
                                         !.start = r.start, !.stop = r.stop]
               /\ written' = IF r.res = "Ok" THEN AfterRemove(written, r.start, r.stop)
                             ELSE written
         IN Apply(remove_resource(fs, TARGET, id, <<>>))
    /\ pre' = Before
    /\ nops' = nops + 1
    /\ UNCHANGED <<overflow_checks, lastadd, cut, codec, scan>>

\* the container is cut right before the end sentinel of an entry, once in a
\* behaviour
Truncate ==
    /\ ~Observed
    /\ ~cut.done
    /\ nops < MaxOps
    /\ \E i \in 1..Len(written) :
         LET at == written[i].stop - END_LEN
             after == Slice(fs[TARGET].data, 0, at)
         IN /\ fs' = [fs EXCEPT ![TARGET] = File(after)]
            /\ cut' = [done |-> TRUE, id |-> written[i].id, start |-> written[i].start,
                       after |-> after]
            /\ last' = [NoLast EXCEPT !.op = "truncate", !.id = written[i].id,
                                      !.res = "Ok", !.start = written[i].start, !.stop = at]
            /\ written' = AfterTruncate(written, at)
    /\ pre' = Before
    /\ nops' = nops + 1
    /\ UNCHANGED <<overflow_checks, lastadd, codec, scan>>

Next ==
    \/ AddResource
    \/ ExportResource
    \/ FindResourcesConfig
    \/ RemoveResource
    \/ Truncate

Spec == Init /\ [][Next]_vars

SpecWindows == InitWindows /\ [][Next]_vars

----------------------------------------------------------------------------
(* The header codec on its own: a header is built by ResourceHead::new,     *)
(* written by to_bytes and read back by ResourceHead::from                  *)
(* (tests.rs, test_resourcehead_serialization).                             *)

MaxCodecSize == 600000

Repeat(c, n) == [i \in 1..n |-> c]

\* ids: empty, "test001", padded with blanks, and 64 or 65 characters of one,
\* two or four bytes each
CodecIds ==
    { <<>>, <<116, 101, 115, 116, 48, 48, 49>>, <<32, 98, 32>>,
      Repeat(97, MAX_ID_LENGTH), Repeat(233, MAX_ID_LENGTH), Repeat(128512, MAX_ID_LENGTH),
      Repeat(97, MAX_ID_LENGTH + 1) }

\* names: empty, "test.txt", and 255 or 256 characters of one or three bytes each
CodecNames ==
    { <<>>, <<116, 101, 115, 116, 46, 116, 120, 116>>,
      Repeat(110, MAX_NAME_LENGTH), Repeat(8364, MAX_NAME_LENGTH),
      Repeat(110, MAX_NAME_LENGTH + 1) }

CodecSizes == {0, 1024, MaxCodecSize}

InitCodec ==
    /\ fs = [p \in Paths |-> Absent]
    /\ written = <<>>
    /\ last = NoLast
    /\ pre = Before
    /\ lastadd = NoAdd
    /\ cut = NoCut
    /\ codec = NoCodec
    /\ nops = 0
    /\ scan = NoScan
    /\ overflow_checks = FALSE

\* ResourceHead::new: the assertions abort the construction
NewHead ==
    /\ codec.stage = "none"
    /\ \E id \in CodecIds, name \in CodecNames, n \in CodecSizes,
          compress \in {"None", "Compress"} :
         codec' = IF NewPanics(id, name) THEN [NoCodec EXCEPT !.stage = "panicked"]
                  ELSE [NoCodec EXCEPT !.stage = "built",
                                       !.h = ResourceHead_new(id, n, n, name, compress)]
    /\ UNCHANGED <<overflow_checks, fs, last, pre, written, lastadd, cut, nops, scan>>

ToBytes ==
    /\ codec.stage = "built"
    /\ codec' = [codec EXCEPT !.stage = "encoded", !.bytes = to_bytes(codec.h)]
    /\ UNCHANGED <<overflow_checks, fs, last, pre, written, lastadd, cut, nops, scan>>

FromBytes ==
    /\ codec.stage = "encoded"
    /\ codec' = [codec EXCEPT !.stage = "decoded", !.back = ResourceHead_from(codec.bytes)]
    /\ UNCHANGED <<overflow_checks, fs, last, pre, written, lastadd, cut, nops, scan>>

NextCodec ==
    \/ NewHead
    \/ ToBytes
    \/ FromBytes

SpecCodec == InitCodec /\ [][NextCodec]_vars

----------------------------------------------------------------------------
(* compare_version on its own: one call on two version strings              *)

\* a component that parses as an i32, and one that does not
Num(v) == [ok |-> TRUE, v |-> v]

NotNum == [ok |-> FALSE, v |-> 0]

\* version strings with the components str::split('.') and parse::<i32> give
\* for them: "1.0.0", "1.0", "1", "1.0.1", "2.0.0", "0.9", "1.10", "1.9",
\* "01.0", "+1.0", "-1", "1.2147483647", "1.2147483648", "1.x", "2.x", "x.1",
\* "1..0", "" and " 1.0"
VersionTable ==
    { [s |-> <<49, 46, 48, 46, 48>>, nums |-> <<Num(1), Num(0), Num(0)>>],
      [s |-> <<49, 46, 48>>, nums |-> <<Num(1), Num(0)>>],
      [s |-> <<49>>, nums |-> <<Num(1)>>],
      [s |-> <<49, 46, 48, 46, 49>>, nums |-> <<Num(1), Num(0), Num(1)>>],
      [s |-> <<50, 46, 48, 46, 48>>, nums |-> <<Num(2), Num(0), Num(0)>>],
      [s |-> <<48, 46, 57>>, nums |-> <<Num(0), Num(9)>>],
      [s |-> <<49, 46, 49, 48>>, nums |-> <<Num(1), Num(10)>>],
      [s |-> <<49, 46, 57>>, nums |-> <<Num(1), Num(9)>>],
      [s |-> <<48, 49, 46, 48>>, nums |-> <<Num(1), Num(0)>>],
      [s |-> <<43, 49, 46, 48>>, nums |-> <<Num(1), Num(0)>>],
      [s |-> <<45, 49>>, nums |-> <<Num(-1)>>],
      [s |-> <<49, 46, 50, 49, 52, 55, 52, 56, 51, 54, 52, 55>>,
       nums |-> <<Num(1), Num(2147483647)>>],
      [s |-> <<49, 46, 50, 49, 52, 55, 52, 56, 51, 54, 52, 56>>,
       nums |-> <<Num(1), NotNum>>],
      [s |-> <<49, 46, 120>>, nums |-> <<Num(1), NotNum>>],
      [s |-> <<50, 46, 120>>, nums |-> <<Num(2), NotNum>>],
      [s |-> <<120, 46, 49>>, nums |-> <<NotNum, Num(1)>>],
      [s |-> <<49, 46, 46, 48>>, nums |-> <<Num(1), NotNum, Num(0)>>],
      [s |-> <<>>, nums |-> <<NotNum>>],
      [s |-> <<32, 49, 46, 48>>, nums |-> <<NotNum, Num(0)>>] }

VersionInputs == { r.s : r \in VersionTable }

CompareVersion ==
    /\ last.op = "init"
    /\ \E version1 \in VersionInputs, version2 \in VersionInputs :
         last' = [NoLast EXCEPT !.op = "compare", !.version1 = version1,
                                !.version2 = version2,
                                !.res = compare_version(version1, version2)]
    /\ pre' = Before
    /\ UNCHANGED <<overflow_checks, fs, written, lastadd, cut, codec, nops, scan>>

SpecVersion == InitCodec /\ [][CompareVersion]_vars

----------------------------------------------------------------------------
(* add_resource on its own: one call, with every kind of argument           *)
(* (main.rs passes the id, the compression level and the output path of the *)
(* command line on as they are).                                            *)

\* the container, or a path at which there is no file
AddTargets == {TARGET, "none.bin"}

\* no output path, a new file, or the container itself
AddOutputs == {<<>>, <<"new.bin">>, <<TARGET>>}

\* an identifier of 65 characters
LongId == Repeat(97, MAX_ID_LENGTH + 1)

AddResourceTo ==
    /\ last.op = "init"
    /\ \E target \in AddTargets, id \in AddIds \cup {LongId}, in \in AddInputs,
          output \in AddOutputs :
         LET dest == IF output = <<>> THEN target ELSE output[1]
             Apply(r) ==
               /\ fs' = r.fs
               /\ last' = [NoLast EXCEPT !.op = "add", !.id = id, !.target = target,
                                         !.src = in[1], !.grade = in[2],
                                         !.output = output, !.out = dest,
                                         !.res = r.res, !.start = Size(r.opened),
                                         !.stop = Size(r.fs[dest].data)]
               /\ lastadd' = IF r.res = "Ok"
                             THEN [valid |-> TRUE, id |-> id, grade |-> in[2],
                                   base |-> r.opened, after |-> r.fs[dest].data,
                                   orig |-> fs[in[1]].data,
                                   start |-> Size(r.opened), stop |-> Size(r.fs[dest].data)]
                             ELSE lastadd
         IN Apply(add_resource(fs, target, in[1], id, in[2], output))
    /\ pre' = Before
    /\ nops' = nops + 1
    /\ UNCHANGED <<overflow_checks, written, cut, codec, scan>>

SpecAdd == Init /\ [][AddResourceTo]_vars

----------------------------------------------------------------------------
(* add_resource in a directory that already holds a file named "temp": the  *)
(* path add_resource compresses to is the fixed name "temp" next to the     *)
(* source (lines 188-191).                                                  *)

\* the bytes "keep" of a file the user owns
TempData == <<Lit(<<107, 101, 101, 112>>)>>

TempContainers ==
    { Container(HostData, <<>>), WithEntry(HostData, <<97>>), WithNested(HostData) }

InitTemp ==
    /\ \E c \in TempContainers :
         /\ fs = [p \in Paths |->
                    CASE p = TARGET -> File(c.data)
                      [] p = "res.bin" -> File(ResData)
                      [] p = "big.bin" -> File(BigData)
                      [] p = "temp" -> File(TempData)
                      [] OTHER -> Absent]
         /\ written = c.written
    /\ last = NoLast
    /\ pre = Before
    /\ lastadd = NoAdd
    /\ cut = NoCut
    /\ codec = NoCodec
    /\ nops = 0
    /\ scan = NoScan
    /\ overflow_checks = FALSE

SpecTemp == InitTemp /\ [][AddResourceTo]_vars

----------------------------------------------------------------------------
(* The scans of export_resource and find_resources_config, step by step:    *)
(* one step per read of a window, per turn of the while-let loop over the   *)
(* window, and per move to the next window.                                 *)

\* a faulty move that stays at the window it has just searched
StuckOffset(file_offset) == file_offset

\* file_offset += SEARCH_BUFFER_SIZE - overlap_size (lines 435, 527)
NextOffset(file_offset) == file_offset + SEARCH_BUFFER_SIZE - overlap_size

\* the entry add_resource writes for big.bin with compression level 9
BigEntry ==
    LET Of(stored) ==
          EntryBytes(ResourceHead_new(<<97>>, Size(stored), Size(stored),
                                      FileName("big.bin"), "Compress"), stored)
    IN Of(compression_file(BigData, 9))

\* a host of n bytes, an entry of id "b " and the entry of big.bin
Windows(n) == Container(Cat(WithEntry(<<Blob(1, n)>>, <<98, 32>>).data, BigEntry), <<>>)

\* the files scanned: those of the other specifications, the empty file,
\* files of exactly one and of three windows without a sentinel, and files of
\* several windows with entries at the end of the first window
ScanContainers ==
    Containers \cup WindowContainers \cup
    { Container(<<>>, <<>>),
      Container(<<Blob(1, SEARCH_BUFFER_SIZE)>>, <<>>),
      Container(<<Blob(1, 3 * SEARCH_BUFFER_SIZE)>>, <<>>),
      Windows(SEARCH_BUFFER_SIZE - 8),
      Windows(SEARCH_BUFFER_SIZE - overlap_size + 100),
      Windows(SEARCH_BUFFER_SIZE - 60) }

InitScan == InitWith(ScanContainers)

\* the result of a scan that has reached the end of the file
Exhausted == IF scan.mode = "export" THEN "NotFound" ELSE "Ok"

\* the call: the file is opened, file_offset = 0 (lines 270-279, 455-466)
StartScan ==
    /\ scan.pc = "idle"
    /\ \/ scan' = [NoScan EXCEPT !.pc = "read", !.mode = "find"]
       \/ \E id \in LookupIds :
             scan' = [NoScan EXCEPT !.pc = "read", !.mode = "export", !.id = id]
    /\ UNCHANGED <<overflow_checks, fs, last, pre, written, lastadd, cut, codec, nops>>

\* a window is read at file_offset (lines 283-292, 470-479)
ReadWindow ==
    /\ scan.pc = "read"
    /\ scan' = LET Read(buffer) ==
                     IF Size(buffer) = 0
                     THEN [scan EXCEPT !.pc = "done", !.buffer = buffer, !.res = Exhausted]
                     ELSE [scan EXCEPT !.pc = "search", !.buffer = buffer,
                                       !.search_start = 0]
               IN Read(Slice(fs[TARGET].data, scan.file_offset,
                             scan.file_offset + SEARCH_BUFFER_SIZE))
    /\ UNCHANGED <<overflow_checks, fs, last, pre, written, lastadd, cut, codec, nops>>

\* one turn of the while-let loop (lines 296-427, 483-520)
SearchStep ==
    /\ scan.pc = "search"
    /\ scan' =
         LET file == fs[TARGET].data
             Hit(absolute_pos) ==
               LET Body(r) ==
                     IF r.skip \/ ~r.config.ok
                     THEN [scan EXCEPT !.search_start = absolute_pos + 1]
                     ELSE IF scan.mode = "find"
                       THEN [scan EXCEPT
                               !.search_start = absolute_pos + 1,
                               !.configs = Append(@, [pos |-> scan.file_offset + absolute_pos,
                                                      h |-> r.config.h])]
                     ELSE IF Trim(r.config.h.id) # Trim(scan.id)
                       THEN [scan EXCEPT !.search_start = absolute_pos + 1]
                     ELSE [scan EXCEPT
                             !.pc = "done",
                             !.res = ExportValidate(file, scan.file_offset + absolute_pos,
                                                    r.config.h).res]
               IN IF absolute_pos = -1 THEN [scan EXCEPT !.pc = "advance"]
                  ELSE Body(ReadConfig(file, scan.file_offset, scan.buffer, absolute_pos))
         IN Hit(Find(scan.buffer, RESOURCE_MAGIC, scan.search_start))
    /\ UNCHANGED <<overflow_checks, fs, last, pre, written, lastadd, cut, codec, nops>>

\* the end of the outer loop (lines 429-435, 522-527)
Advance ==
    /\ scan.pc = "advance"
    /\ scan' = IF scan.file_offset + SEARCH_BUFFER_SIZE >= Size(fs[TARGET].data)
               THEN [scan EXCEPT !.pc = "done", !.res = Exhausted]
               ELSE [scan EXCEPT !.pc = "read",
                                 !.file_offset = NextOffset(scan.file_offset)]
    /\ UNCHANGED <<overflow_checks, fs, last, pre, written, lastadd, cut, codec, nops>>

NextScan ==
    \/ StartScan
    \/ ReadWindow
    \/ SearchStep
    \/ Advance

SpecScan == InitScan /\ [][NextScan]_vars

----------------------------------------------------------------------------
(* The extent arithmetic of remove_resource and export_resource on its own: *)
(* containers whose entry of id "a" has a length field close to 2^64, under *)
(* either build.                                                            *)

\* a header as a foreign writer could store it: version 1.0.0, id "a", and a
\* length field of twenty digits, the number 2^64 - below
Overflowing(below) ==
    [Forged(SUPPORTED_VERSION, <<97>>, 26) EXCEPT !.length = NearMax(below)]

\* the offset of the payload of such an entry that starts at resource_start
PayloadStart(resource_start) == resource_start + MAGIC_LEN + get_len(Overflowing(1))

\* a host file whose first bytes are those of the end sentinel
EndHost == Cat(<<Lit(END_IDENTIFIER)>>, HostData)

\* the entry of id "a" follows the host or an entry of id "b "; its length
\* field is 2^64 - 1 (the sum wraps to one byte before the payload), such that
\* only end_pos + 5 wraps, such that nothing wraps, 2^64 itself, such that
\* the sum wraps to the end sentinel of the entry before, such that it wraps
\* to offset 0, or eleven digits; or the entry is one add_resource wrote
ExtentContainers ==
    LET before == WithEntry(HostData, <<98, 32>>)
        At(host, written_before, length) ==
          Container(Cat(host, EntryBytes([Overflowing(1) EXCEPT !.length = length], ResData)),
                    written_before)
    IN { At(HostData, <<>>, NearMax(1)),
         At(HostData, <<>>, NearMax(PayloadStart(Size(HostData)) + 3)),
         At(HostData, <<>>, NearMax(PayloadStart(Size(HostData)) + END_LEN + 1)),
         At(HostData, <<>>, NearMax(0)),
         At(before.data, before.written,
            NearMax(PayloadStart(Size(before.data)) - Size(before.data) + END_LEN)),
         At(EndHost, <<>>, NearMax(PayloadStart(Size(EndHost)))),
         At(HostData, <<>>, <<57, 57, 57, 57, 57, 57, 57, 57, 57, 57, 57>>),
         WithEntry(HostData, <<97>>) }

InitExtent ==
    /\ \E c \in ExtentContainers :
         /\ fs = [p \in Paths |->
                    CASE p = TARGET -> File(c.data)
                      [] p = "res.bin" -> File(ResData)
                      [] p = "big.bin" -> File(BigData)
                      [] OTHER -> Absent]
         /\ written = c.written
    /\ last = NoLast
    /\ pre = Before
    /\ lastadd = NoAdd
    /\ cut = NoCut
    /\ codec = NoCodec
    /\ nops = 0
    /\ scan = NoScan
    /\ overflow_checks \in BOOLEAN

NextExtent ==
    \/ ExportResource
    \/ RemoveResource

SpecExtent == InitExtent /\ [][NextExtent]_vars

----------------------------------------------------------------------------
(* Properties.  They are stated over the last operation (last), the state   *)
(* before it (pre), and the latest append (lastadd).                        *)

\* the offsets at which a container holds an entry of identifier id: a start
\* sentinel followed by bytes that decode as a header with that trimmed id
Positions(data, id) ==
    { p \in Occurrences(data, RESOURCE_MAGIC) :
        LET Match(d) == d.ok /\ Trim(d.h.id) = Trim(id)
        IN Match(ResourceHead_from(LiteralFrom(data, p + MAGIC_LEN))) }

Lowest(S) == CHOOSE x \in S : \A y \in S : x <= y

HeaderAt(data, pos) == ResourceHead_from(LiteralFrom(data, pos + MAGIC_LEN)).h

\* the container is as the latest add_resource left it
JustAdded == lastadd.valid /\ pre.fs[TARGET].data = lastadd.after

\* export_resource has been called for the identifier just added, with an
\* output path other than the container
AddedThenExported ==
    /\ last.op = "export"
    /\ last.out # TARGET
    /\ JustAdded
    /\ Trim(last.id) = Trim(lastadd.id)

RoundTrip ==
    /\ last.res = "Ok"
    /\ fs[last.out].ex
    /\ fs[last.out].data = lastadd.orig

AddedThenRemoved ==
    /\ last.op = "remove"
    /\ JustAdded
    /\ Trim(last.id) = Trim(lastadd.id)
    /\ FindScan(lastadd.base, 0, <<>>) = <<>>

\* the encoded size of the entry at pos: sentinel, header, payload, sentinel
EncodedSize(data, pos) ==
    LET Of(h) == MAGIC_LEN + get_len(h) + ParseUnsigned(Trim(h.length)).v + END_LEN
    IN Of(HeaderAt(data, pos))

\* C2: for a container that holds no entries, add_resource followed by
\* remove_resource of the same identifier restores the container byte for
\* byte: a full scan returns no entry, the file shrinks by the encoded size of
\* the entry, and the bytes before and after the removed range are unchanged.
C2_AddRemoveRestores ==
    AddedThenRemoved =>
        LET before == pre.fs[TARGET].data
            after == fs[TARGET].data
        IN /\ last.res = "Ok"
           /\ after = lastadd.base
           /\ FindScan(after, 0, <<>>) = <<>>
           /\ Size(before) - Size(after) = EncodedSize(before, lastadd.start)
           /\ Slice(after, 0, last.start) = Slice(before, 0, last.start)
           /\ Slice(after, last.start, Size(after)) = Slice(before, last.stop, Size(before))

C2_Witness ==
    /\ AddedThenRemoved
    /\ last.res = "Ok"
    /\ lastadd.grade # <<>>
    /\ Size(lastadd.base) > 0
    /\ Size(fs[TARGET].data) < Size(pre.fs[TARGET].data)

\* find_resources_config has been called on a container of at most one scan
\* window, made by an uncompressed add_resource from a host without sentinel
AddedThenFound ==
    /\ last.op = "find"
    /\ lastadd.valid
    /\ fs[TARGET].data = lastadd.after
    /\ lastadd.grade = <<>>
    /\ Size(lastadd.after) <= SEARCH_BUFFER_SIZE
    /\ Occurrences(lastadd.base, RESOURCE_MAGIC) = {}
    /\ Occurrences(lastadd.orig, RESOURCE_MAGIC) = {}

\* C3: after an uncompressed add_resource of n bytes under identifier i to a
\* container without entries that fits in one scan window,
\* find_resources_config returns exactly one header, of id i and size n.
C3_AppendThenFind ==
    AddedThenFound =>
        /\ last.res = "Ok"
        /\ Len(last.configs) = 1
        /\ last.configs[1].h.id = lastadd.id
        /\ ParseUnsigned(Trim(last.configs[1].h.size))
             = [ok |-> TRUE, huge |-> FALSE, v |-> Size(lastadd.orig)]

C3_Witness ==
    /\ AddedThenFound
    /\ Len(last.configs) = 1
    /\ last.configs[1].pos = Size(lastadd.base)
    /\ Size(lastadd.orig) = 26

\* C4: for every header built with an id of at most 64 characters and a name
\* of at most 255 characters, ResourceHead::from(h.to_bytes()) succeeds and
\* yields a header equal to h in every field.
C4_CodecRoundTrip ==
    codec.stage = "decoded" =>
        /\ codec.back.ok
        /\ codec.back.h.version = codec.h.version
        /\ codec.back.h.id = codec.h.id
        /\ codec.back.h.name = codec.h.name
        /\ codec.back.h.length = codec.h.length
        /\ codec.back.h.size = codec.h.size
        /\ codec.back.h.compress = codec.h.compress

C4_Witness ==
    /\ codec.stage = "decoded"
    /\ codec.back.ok
    /\ Len(codec.h.id) = MAX_ID_LENGTH
    /\ Len(codec.h.name) = MAX_NAME_LENGTH
    /\ Len(codec.bytes) > 75 + MAX_ID_LENGTH + MAX_NAME_LENGTH
    /\ codec.h.compress = "Compress"

\* the entries of the requested identifier before the last operation
Same == Positions(pre.fs[TARGET].data, last.id)

\* the offset of the first entry of the requested identifier, if there is one
First == LET Of(same) == IF same = {} THEN {} ELSE {Lowest(same)} IN Of(Same)

\* the entry add_resource wrote at offset p, if it is still intact
WrittenAt(p) == { i \in 1..Len(pre.written) : pre.written[i].start = p }

AllPositions(data) ==
    { p \in Occurrences(data, RESOURCE_MAGIC) :
        ResourceHead_from(LiteralFrom(data, p + MAGIC_LEN)).ok }

\* C6 as stated: in a container larger than one scan window,
\* find_resources_config reports every entry exactly once, also an entry
\* whose start sentinel lies within overlap_size bytes of a window boundary:
\* one header per entry, never two for the same offset.
C6_ReportedOnce ==
    (last.op = "find" /\ Size(fs[TARGET].data) > SEARCH_BUFFER_SIZE) =>
        /\ \A i, j \in 1..Len(last.configs) :
              i # j => last.configs[i].pos # last.configs[j].pos
        /\ Len(last.configs) = Cardinality(AllPositions(fs[TARGET].data))

\* C7: every entry written by add_resource is reported by
\* find_resources_config and found by export_resource (the first of its
\* identifier), wherever it lies with respect to the scan windows.
C7_NoEntryMissed ==
    /\ last.op = "find" =>
          /\ last.res = "Ok"
          /\ \A i \in 1..Len(written) :
                \E j \in 1..Len(last.configs) :
                   /\ last.configs[j].pos = written[i].start
                   /\ last.configs[j].h.id = written[i].id
    /\ (last.op = "export" /\ ~cut.done) =>
          \A i \in 1..Len(pre.written) :
             (/\ Trim(pre.written[i].id) = Trim(last.id)
              /\ \A k \in 1..Len(pre.written) :
                    Trim(pre.written[k].id) = Trim(last.id)
                       => pre.written[i].start <= pre.written[k].start)
             => /\ last.out # TARGET => last.res = "Ok"
                /\ last.start = pre.written[i].start
                /\ last.out # TARGET => fs[last.out].data = pre.written[i].orig

\* an entry whose start sentinel straddles the end of the first scan window
C7_Witness ==
    /\ last.op = "export"
    /\ last.res = "Ok"
    /\ last.start < SEARCH_BUFFER_SIZE
    /\ last.start + MAGIC_LEN > SEARCH_BUFFER_SIZE
    /\ \E i \in 1..Len(pre.written) : pre.written[i].start = last.start

\* export_resource or remove_resource has been called for the identifier of
\* the entry the container was just truncated in, before its end sentinel
TruncatedThenLookedUp ==
    /\ last.op \in {"export", "remove"}
    /\ cut.done
    /\ pre.fs[TARGET].data = cut.after
    /\ Trim(last.id) = Trim(cut.id)
    /\ First = {cut.start}

IntegrityErrors == {"BeyondFile", "NoEndMarker"}

\* C8: when the container is truncated immediately before the end sentinel of
\* the entry of the requested identifier, export_resource and remove_resource
\* return an integrity error and the container is byte-identical afterwards.
C8_TruncationDetected ==
    TruncatedThenLookedUp =>
        /\ last.res \in IntegrityErrors
        /\ fs = pre.fs

C8_Witness ==
    /\ TruncatedThenLookedUp
    /\ last.op = "remove"
    /\ last.res \in IntegrityErrors
    /\ export_resource(pre.fs, TARGET, last.id, "out.bin").res \in IntegrityErrors
    /\ Size(fs[TARGET].data) > 0

\* the bytes at pos are a whole entry: the end sentinel follows the payload
WellFormedAt(data, pos) ==
    LET Ends(n) == Slice(data, pos + n - END_LEN, pos + n) = <<Lit(END_IDENTIFIER)>>
    IN Ends(EncodedSize(data, pos))

\* export_resource has been called for an identifier whose first entry, at
\* offset first, is whole
ExportedWhole(first) ==
    /\ last.op = "export"
    /\ first # {}
    /\ WellFormedAt(pre.fs[TARGET].data, Lowest(first))

\* the version of the entry at the offset
VersionAt(first) == HeaderAt(pre.fs[TARGET].data, Lowest(first)).version

\* C9 as stated: export_resource fails with a version mismatch, and writes no
\* output, for every whole entry whose version string differs from "1.0.0";
\* only an entry of exactly that version is extracted.
C9_ExactVersion ==
    LET Holds(first) ==
          ExportedWhole(first) =>
             LET Gate(version) ==
                   /\ version # SUPPORTED_VERSION
                        => (last.res = "VersionMismatch" /\ fs = pre.fs)
                   /\ last.res = "Ok" => version = SUPPORTED_VERSION
             IN Gate(VersionAt(first))
    IN last.op = "export" => Holds(First)

\* versions that equal 1.0.0 number by number, a missing number being zero
EqualVersions == { <<49, 46, 48, 46, 48>>, <<49, 46, 48>> }

\* versions that are lower or higher in some number
OtherVersions == { <<50, 46, 48, 46, 48>>, <<48, 46, 57>> }

\* versions with a component that is not a number
MalformedVersions == { <<49, 46, 120>> }

\* C9, amended: the version is compared number by number, a missing number
\* being zero.  A whole entry whose version differs in a number is rejected
\* with a version mismatch and nothing is written; a version that is not
\* dotted-numeric is rejected with a parse error and nothing is written; an
\* entry whose version is equal in all numbers ("1.0.0", "1.0") is extracted.
C9_VersionGate ==
    LET Holds(first) ==
          ExportedWhole(first) =>
             LET Gate(version) ==
                   /\ version \in EqualVersions \cup OtherVersions \cup MalformedVersions
                   /\ version \in OtherVersions
                        => (last.res = "VersionMismatch" /\ fs = pre.fs)
                   /\ version \in MalformedVersions
                        => (last.res = "InvalidVersion" /\ fs = pre.fs)
                   /\ (version \in EqualVersions /\ last.out # TARGET) => last.res = "Ok"
                   /\ last.res = "Ok" => version \in EqualVersions
             IN Gate(VersionAt(first))
    IN last.op = "export" => Holds(First)

C9_Witness ==
    /\ ExportedWhole(First)
    /\ VersionAt(First) = <<49, 46, 48>>
    /\ last.res = "Ok"
    /\ fs[last.out].data = ResData

\* C10 as stated: remove_resource excises an entry only if the search of
\* export_resource accepts that entry at that offset; an entry whose version
\* is not the supported one is not excised.
C10_SameSearch ==
    (last.op = "remove" /\ last.res = "Ok") =>
        LET Accepts(e) == e.res = "Found" /\ e.start = last.start
        IN Accepts(ExportScan(pre.fs[TARGET].data, last.id, 0))

\* the entry at pos carries a version equal to the supported one
SupportedAt(data, pos) == HeaderAt(data, pos).version \in EqualVersions

\* C11 as stated: in the search of export_resource a candidate of the
\* requested identifier that fails the extent check or the end-sentinel check
\* is passed over, so that the first whole entry of that identifier with a
\* supported version is the one returned, whatever broken candidates of the
\* same identifier lie before it.
C11_SearchContinues ==
    LET Holds(data, same) ==
          \A p \in same :
             (/\ SupportedAt(data, p)
              /\ WellFormedAt(data, p)
              /\ \A q \in same :
                    q < p => (SupportedAt(data, q) /\ ~WellFormedAt(data, q)))
             => /\ last.start = p
                /\ last.out # TARGET => last.res = "Ok"
    IN last.op = "export" => Holds(pre.fs[TARGET].data, Same)

\* C12 as stated: an identifier of more than 64 characters is rejected as a
\* checked error: add_resource returns an error value to its caller, it
\* neither succeeds nor aborts the process.
C12_CheckedError ==
    (last.op = "add" /\ Len(last.id) > MAX_ID_LENGTH) => last.res \notin {"Ok", "Panic"}

\* add_resource has returned success; the file it appended to is last.out
Added == last.op = "add" /\ last.res = "Ok"

\* the payload bytes add_resource stores for the source it was given
Stored ==
    IF last.grade = <<>> THEN pre.fs[last.src].data
    ELSE compression_file(pre.fs[last.src].data, last.grade[1])

C14_OriginalUntouched ==
    (Added /\ last.output # <<>>) =>
        LET Holds(orig, out) ==
              /\ last.out # last.target => fs[last.target].data = orig
              /\ Slice(out, 0, Size(orig)) = orig
              /\ Size(out) = Size(orig) + (lastadd.stop - lastadd.start)
              /\ Slice(out, Size(orig), Size(out))
                   = Slice(lastadd.after, lastadd.start, lastadd.stop)
        IN Holds(pre.fs[last.target].data, fs[last.out].data)

\* C15 as stated: when add_resource is called with a compression level, the
\* temporary compressed file no longer exists once the call has returned
\* success or an error (the source exists, so the temporary file was created;
\* the error comes from the copy or the open of the target).
C15_TempRemoved ==
    (/\ last.op = "add"
     /\ last.grade # <<>>
     /\ pre.fs[last.src].ex
     /\ last.res \in {"Ok", "IoError"}) => ~fs["temp"].ex

\* C16 as stated: export_resource returns success only if the file finally
\* left at the output path has a byte length equal to the header's size
\* field; when it reports a size mismatch the output file has been deleted.
C16_SizeChecked ==
    last.op = "export" =>
        /\ last.res = "Ok" =>
              /\ fs[last.out].ex
              /\ ParseUnsigned(Trim(last.h.size))
                   = [ok |-> TRUE, huge |-> FALSE, v |-> Size(fs[last.out].data)]
        /\ last.res = "SizeMismatch" => ~fs[last.out].ex

\* C17 as stated: find_resources_config returns its headers in strictly
\* increasing order of absolute file offset, for every container, also one
\* that spans several scan windows.
C17_StrictlyIncreasing ==
    last.op = "find" =>
        \A i \in 1..Len(last.configs) :
           i < Len(last.configs) => last.configs[i].pos < last.configs[i + 1].pos

\* the payload bytes of the entry at pos, as its header delimits them
PayloadAt(data, pos) ==
    LET Of(h) == Slice(data, pos + MAGIC_LEN + get_len(h),
                       pos + MAGIC_LEN + get_len(h) + ParseUnsigned(Trim(h.length)).v)
    IN Of(HeaderAt(data, pos))

\* C18 as stated: after a successful remove_resource every other entry the
\* container held (every offset a full scan reports, outside the range that
\* was excised) is still there, moved down by the excised length if it lay
\* behind, with the same header and the same payload bytes, and its end
\* sentinel is still in place if it was; the order of the entries follows from
\* the offsets.  This includes an entry whose payload holds a well-formed
\* entry of the removed identifier.
C18_OthersPreserved ==
    (last.op = "remove" /\ last.res = "Ok") =>
        LET Holds(before, after) ==
              \A p \in AllPositions(before) :
                 (p < last.start \/ p >= last.stop) =>
                    LET Kept(q) ==
                          /\ q \in AllPositions(after)
                          /\ HeaderAt(after, q) = HeaderAt(before, p)
                          /\ PayloadAt(after, q) = PayloadAt(before, p)
                          /\ WellFormedAt(before, p) => WellFormedAt(after, q)
                    IN Kept(IF p < last.start THEN p ELSE p - (last.stop - last.start))
        IN Holds(pre.fs[TARGET].data, fs[TARGET].data)

\* C19 as stated: export_resource and find_resources_config never change the
\* container: after every call, successful or failed, and for every output
\* path, also the container's own, the container holds the bytes it held
\* before the call.
C19_LookupsReadOnly ==
    last.op \in {"export", "find"} => fs[TARGET] = pre.fs[TARGET]

\* C20: in every entry written by add_resource the header's size field equals
\* its length field, and both are the number of payload bytes stored between
\* the header and the end sentinel; with compression that is the length of
\* the compressed stream, not the length of the source.
C20_SizeIsStoredLength ==
    Added =>
        LET Fields(h, stored) ==
              /\ h.size = h.length
              /\ Len(h.size) = LENGTH_WIDTH
              /\ ParseUnsigned(Trim(h.size)) = [ok |-> TRUE, huge |-> FALSE, v |-> stored]
              /\ lastadd.stop - lastadd.start = MAGIC_LEN + get_len(h) + stored + END_LEN
              /\ last.grade = <<>> => stored = Size(lastadd.orig)
              /\ h.compress = IF last.grade = <<>> THEN "None" ELSE "Compress"
        IN Fields(HeaderAt(lastadd.after, lastadd.start), Size(Stored))

C20_Witness ==
    /\ Added
    /\ last.grade = <<9>>
    /\ Size(lastadd.orig) = 6000000
    /\ ParseUnsigned(Trim(HeaderAt(lastadd.after, lastadd.start).size)).v = 600020
    /\ Size(lastadd.base) > 0

\* the offsets find_resources_config returned
Listed == { last.configs[j].pos : j \in 1..Len(last.configs) }

\* C21: find_resources_config reports every start sentinel whose following
\* bytes decode as a header, and nothing else, each with the header decoded
\* there: neither the version nor the extent nor the end sentinel is checked.
\* So it lists the entry the container was truncated in, for which (when it
\* is the first of its identifier) export_resource and remove_resource fail.
C21_ListsUnchecked ==
    last.op = "find" =>
        LET Holds(data) ==
              /\ last.res = "Ok"
              /\ Listed = AllPositions(data)
              /\ \A j \in 1..Len(last.configs) :
                    last.configs[j].h = HeaderAt(data, last.configs[j].pos)
              /\ (cut.done /\ data = cut.after) => cut.start \in Listed
              /\ (/\ cut.done
                  /\ data = cut.after
                  /\ \A p \in Positions(data, cut.id) : cut.start <= p) =>
                    /\ export_resource(fs, TARGET, cut.id, "out.bin").res \in IntegrityErrors
                    /\ remove_resource(fs, TARGET, cut.id, <<>>).res \in IntegrityErrors
        IN Holds(fs[TARGET].data)

C21_Witness ==
    /\ last.op = "find"
    /\ cut.done
    /\ fs[TARGET].data = cut.after
    /\ \E j \in 1..Len(last.configs) :
          /\ last.configs[j].pos = cut.start
          /\ Trim(last.configs[j].h.id) = Trim(cut.id)
          /\ ~WellFormedAt(fs[TARGET].data, cut.start)
    /\ export_resource(fs, TARGET, cut.id, "out.bin").res = "BeyondFile"
    /\ \E p \in Listed : HeaderAt(fs[TARGET].data, p).version \notin EqualVersions

\* the components of a version string of the table
Components(s) == (CHOOSE r \in VersionTable : r.s = s).nums

\* component i of a version, a missing one being zero
Padded(nums, i) == IF i <= Len(nums) THEN nums[i] ELSE Num(0)

\* the indices at which two versions differ in number, a missing component
\* being zero
Differing(nums1, nums2) ==
    { i \in 1..Max(Len(nums1), Len(nums2)) : Padded(nums1, i).v # Padded(nums2, i).v }

\* the ordering the first differing component gives
OrderAt(nums1, nums2, i) ==
    IF Padded(nums1, i).v > Padded(nums2, i).v THEN "Greater" ELSE "Less"

\* C22 as stated: compare_version returns an error when some component of
\* either string is not an integer; otherwise Equal exactly when all
\* components agree, a missing one being zero, and Greater or Less by the
\* first differing component.
C22_ErrorOnAnyNonInteger ==
    last.op = "compare" =>
        LET Holds(nums1, nums2) ==
              LET bad == \/ \E i \in 1..Len(nums1) : ~nums1[i].ok
                         \/ \E i \in 1..Len(nums2) : ~nums2[i].ok
                  diff == Differing(nums1, nums2)
              IN /\ bad <=> last.res = "Err"
                 /\ (~bad /\ diff = {}) <=> last.res = "Equal"
                 /\ (~bad /\ diff # {}) => last.res = OrderAt(nums1, nums2, Lowest(diff))
        IN Holds(Components(last.version1), Components(last.version2))

\* C22, amended: compare_version goes through the components from the first
\* on, a missing one being zero, parsing each as an i32 (optional sign,
\* digits, within range).  The first index at which a component does not
\* parse or the two numbers differ decides: an error if a component does not
\* parse, else Greater or Less by the two numbers.  Equal is returned exactly
\* when every component parses and all agree ("1.0" and "1.0.0" are Equal).
\* A component behind the first difference is never looked at.
C22_ComponentWise ==
    last.op = "compare" =>
        LET Holds(nums1, nums2) ==
              LET decisive == { i \in 1..Max(Len(nums1), Len(nums2)) :
                                  \/ ~Padded(nums1, i).ok
                                  \/ ~Padded(nums2, i).ok
                                  \/ Padded(nums1, i).v # Padded(nums2, i).v }
                  Decided(i) ==
                    IF ~Padded(nums1, i).ok \/ ~Padded(nums2, i).ok THEN "Err"
                    ELSE OrderAt(nums1, nums2, i)
              IN /\ decisive = {} <=> last.res = "Equal"
                 /\ decisive # {} => last.res = Decided(Lowest(decisive))
        IN Holds(Components(last.version1), Components(last.version2))

C22_Witness ==
    /\ last.op = "compare"
    /\ last.version1 = <<49, 46, 48>>
    /\ last.version2 = <<49, 46, 48, 46, 48>>
    /\ last.res = "Equal"

\* within a window the search position strictly increases from hit to hit,
\* whether the bytes behind the sentinel decode or not
SearchMoves ==
    (scan.pc = "search" /\ scan'.pc = "search") =>
        /\ scan'.search_start > scan.search_start
        /\ scan'.file_offset = scan.file_offset
        /\ scan'.buffer = scan.buffer

\* from window to window the offset increases by the window size less the
\* overlap, and only while the window ends before the file does
WindowMoves ==
    /\ scan'.file_offset # scan.file_offset =>
          /\ scan.pc = "advance"
          /\ scan'.file_offset = scan.file_offset + SEARCH_BUFFER_SIZE - overlap_size
          /\ scan'.file_offset > scan.file_offset
          /\ scan.file_offset + SEARCH_BUFFER_SIZE < Size(fs[TARGET].data)
    /\ (scan.pc = "advance" /\ scan'.pc = "done") =>
          scan.file_offset + SEARCH_BUFFER_SIZE >= Size(fs[TARGET].data)

\* a scan that is over has reached the end of the file, or export_resource
\* has met a header of its identifier; its outcome is that of the searches
\* FindScan and ExportScan
ScanOver ==
    scan.pc = "done" =>
        LET Holds(file) ==
              /\ \/ scan.file_offset + SEARCH_BUFFER_SIZE >= Size(file)
                 \/ scan.mode = "export" /\ Positions(file, scan.id) # {}
              /\ scan.mode = "find" =>
                    scan.res = "Ok" /\ scan.configs = FindScan(file, 0, <<>>)
              /\ scan.mode = "export" =>
                    LET Same_res(e) ==
                          scan.res = IF e.res = "Continue" THEN "NotFound" ELSE e.res
                    IN Same_res(ExportScan(file, scan.id, 0))
              /\ (scan.mode = "export" /\ Positions(file, scan.id) = {}) =>
                    scan.res = "NotFound"
        IN Holds(fs[TARGET].data)

\* the position of a scan among its steps
PcRank(pc) ==
    CASE pc = "idle" -> 4
      [] pc = "read" -> 3
      [] pc = "search" -> 2
      [] pc = "advance" -> 1
      [] OTHER -> 0

\* what is left of a scan: the bytes of the file from the window offset on,
\* the steps left for the window, the bytes of the window from the search
\* position on; three natural numbers, ordered lexicographically
ScanRank(sc, file) ==
    <<Max(0, Size(file) - sc.file_offset), PcRank(sc.pc),
      Max(0, Size(sc.buffer) - sc.search_start)>>

LexLess(a, b) ==
    \/ a[1] < b[1]
    \/ a[1] = b[1] /\ a[2] < b[2]
    \/ a[1] = b[1] /\ a[2] = b[2] /\ a[3] < b[3]

\* every step of a scan lowers its rank
Descends ==
    scan' # scan => LexLess(ScanRank(scan', fs'[TARGET].data), ScanRank(scan, fs[TARGET].data))

\* a scan is at one of its steps, its positions lie within the window and the
\* file, and the window it searches is not empty
ScanSteps ==
    /\ scan.pc \in {"idle", "read", "search", "advance", "done"}
    /\ scan.search_start >= 0
    /\ scan.search_start <= Size(scan.buffer)
    /\ scan.file_offset >= 0
    /\ scan.file_offset = 0 \/ scan.file_offset < Size(fs[TARGET].data)
    /\ scan.pc \in {"search", "advance"} => Size(scan.buffer) > 0

\* C23: the scans of find_resources_config and export_resource terminate on
\* every file: within a window the search position strictly increases after
\* each sentinel hit, the window offset strictly increases by window size
\* minus overlap between windows, the scan stops once a window reaches the
\* end of the file, and export_resource then returns not-found if no entry
\* matched.
\* Termination is stated by a measure: every step of a scan lowers
\* ScanRank, which cannot fall for ever, and a scan that is not over always
\* has a next step.
C23_ScansTerminate ==
    /\ [][SearchMoves]_vars
    /\ [][WindowMoves]_vars
    /\ [][Descends]_vars
    /\ []ScanSteps
    /\ []ScanOver

\* a listing over three windows that has reported entries
C23_Witness ==
    /\ scan.pc = "done"
    /\ scan.mode = "find"
    /\ scan.file_offset >= 2 * (SEARCH_BUFFER_SIZE - overlap_size)
    /\ Len(scan.configs) >= 2
    /\ Size(fs[TARGET].data) > 2 * SEARCH_BUFFER_SIZE - overlap_size

\* C24 as stated: an add_resource call that does not go through because the
\* identifier exceeds its length limit leaves the target container as it
\* was: no start sentinel and no part of an entry has been appended.
C24_RejectionLeavesTarget ==
    (last.op = "add" /\ Len(last.id) > MAX_ID_LENGTH /\ last.res # "Ok") =>
        fs[last.target] = pre.fs[last.target]

\* the first header of identifier id in a container, where there is one
FirstHeader(data, id) ==
    LET ps == Positions(data, id)
        p == CHOOSE q \in ps : \A o \in ps : q <= o
    IN ResourceHead_from(LiteralFrom(data, p + MAGIC_LEN)).h

\* C25: whatever unsigned integer the length field of the matching header
\* holds, remove_resource and export_resource do not panic; the range
\* remove_resource cuts out has start < end <= file length; and a length of
\* more than the file can hold gives an integrity error.
C25_ExtentInRange ==
    last.op \in {"remove", "export"} =>
      /\ last.res # "Panic"
      /\ (last.op = "remove" /\ last.res = "Ok") =>
           /\ last.start < last.stop
           /\ last.stop <= Size(pre.fs[TARGET].data)
      /\ ( /\ Positions(pre.fs[TARGET].data, last.id) # {}
           /\ ParseUnsigned(Trim(FirstHeader(pre.fs[TARGET].data, last.id).length)).ok
           /\ ParseUnsigned(Trim(FirstHeader(pre.fs[TARGET].data, last.id).length)).huge )
         => last.res \in IntegrityErrors

\* C26: add_resource without a compression level creates, changes or deletes
\* no file but the target container and its output copy; a file named "temp"
\* that exists before the call is there, unchanged, after it.
C26_OnlyTargetTouched ==
    (last.op = "add" /\ last.grade = <<>>) =>
      \A p \in Paths \ {last.target, last.out} : fs[p] = pre.fs[p]

====
